---- MODULE Spec2Model ----
(***************************************************************************)
(* The catalogue builder of auto.py: ModelCharacteristicBuilder.build,     *)
(* ModelBuilder.build and DatasetReader.read.                              *)
(*                                                                         *)
(* A Python str is a sequence of one-character strings.  A Python dict is  *)
(* a sequence of <<key, value>> pairs with distinct keys, in insertion     *)
(* order.  Objects live in heaps: manufacturers[i] and models[j] are the   *)
(* i-th Manufacturer and the j-th Model constructed, and i, j are their    *)
(* identities.  The registry maps a brand to a Manufacturer identity.      *)
(***************************************************************************)
EXTENDS Integers, Sequences, FiniteSets, TLC

VARIABLES pc, csv_file, line_count, header, source, representation, calls,
          registry, manufacturers, models, exception, returned

vars == <<pc, csv_file, line_count, header, source, representation, calls,
          registry, manufacturers, models, exception, returned>>

(***************************************************************************)
(* Bounds of the model.                                                    *)
(***************************************************************************)
\* data records read after the header record
MaxRecords == 2
\* cells in one record of the source
MaxCells == 4
\* characters of the name field of a direct ModelBuilder.build call
MaxLen == 5
\* direct ModelBuilder.build calls on one registry
MaxCalls == 3

(***************************************************************************)
(* Strings.                                                                *)
(***************************************************************************)
Whitespace == {" "}
Alphabet == {"a", "b", " "}

StringsUpTo(chars, n) == UNION {[1..k -> chars] : k \in 0..n}

\* the value None, which is no str
None == <<"<None>">>

\* src/auto.py:6-11
MPG == <<"m", "p", "g">>
CC == <<"c", "c">>
HP == <<"h", "p">>
KG == <<"k", "g">>
SECONDS == <<"s", "e", "c", "s">>

\* str.split(): the maximal runs of non-whitespace characters, in order
RECURSIVE SplitFrom(_, _, _, _)
SplitFrom(s, i, cur, acc) ==
    IF i > Len(s)
    THEN IF cur = <<>> THEN acc ELSE Append(acc, cur)
    ELSE IF s[i] \in Whitespace
         THEN SplitFrom(s, i + 1, <<>>, IF cur = <<>> THEN acc ELSE Append(acc, cur))
         ELSE SplitFrom(s, i + 1, Append(cur, s[i]), acc)

split(s) == SplitFrom(s, 1, <<>>, <<>>)

\* ' '.join(parts)
RECURSIVE join(_)
join(parts) ==
    IF parts = <<>> THEN <<>>
    ELSE IF Len(parts) = 1 THEN parts[1]
    ELSE parts[1] \o <<" ">> \o join(Tail(parts))

(***************************************************************************)
(* Dictionaries.                                                           *)
(***************************************************************************)
Keys(d) == {d[i][1] : i \in DOMAIN d}

Lookup(d, k) == d[CHOOSE i \in DOMAIN d : d[i][1] = k][2]

\* d.update({k: v}): a present key keeps its position and takes the new value
DictUpdate(d, k, v) ==
    IF k \in Keys(d)
    THEN [i \in DOMAIN d |-> IF d[i][1] = k THEN <<k, v>> ELSE d[i]]
    ELSE Append(d, <<k, v>>)

(***************************************************************************)
(* The characteristics.                                                    *)
(***************************************************************************)
SimpleClasses == {"NumberOfCylinders", "Year"}

\* Weight built with the unit of HorsePower
UnitOfMeasure_swapped(cls) ==
    CASE cls = "MilesPerGallon" -> MPG
      [] cls = "NumberOfCylinders" -> None
      [] cls = "Displacement" -> CC
      [] cls = "HorsePower" -> HP
      [] cls = "Weight" -> HP
      [] cls = "Acceleration" -> SECONDS
      [] cls = "Year" -> None

\* the unit each class hands to ModelCharacteristic.__init__
UnitOfMeasure(cls) ==
    CASE cls = "MilesPerGallon" -> MPG
      [] cls = "NumberOfCylinders" -> None
      [] cls = "Displacement" -> CC
      [] cls = "HorsePower" -> HP
      [] cls = "Weight" -> KG
      [] cls = "Acceleration" -> SECONDS
      [] cls = "Year" -> None

\* constructing an instance of cls around a raw value
Construct(cls, value) ==
    [cls |-> cls, value |-> value, unit_of_measure |-> UnitOfMeasure(cls)]

get_value(c) == c.value

get_unit_of_measure(c) == c.unit_of_measure

get_meaningful_value(c) ==
    IF c.cls \in SimpleClasses
    THEN c.value
    ELSE c.value \o <<" ">> \o c.unit_of_measure

CHARACTERISTICS_DICT ==
    [mpg |-> "MilesPerGallon",
     cylinders |-> "NumberOfCylinders",
     displacement |-> "Displacement",
     horsepower |-> "HorsePower",
     weight |-> "Weight",
     acceleration |-> "Acceleration",
     year |-> "Year"]

\* a lookup with dict.get: a name that is no key reaches the else branch
ModelCharacteristicBuilder_build_get(characteristic_name, value) ==
    IF characteristic_name \in DOMAIN CHARACTERISTICS_DICT
    THEN [exc |-> "none",
          obj |-> Construct(CHARACTERISTICS_DICT[characteristic_name], value)]
    ELSE [exc |-> "none", obj |-> None]

\* ModelCharacteristicBuilder.build: the subscript raises KeyError for a name
\* that is no key; every class is truthy, so the else branch is never taken
ModelCharacteristicBuilder_build(characteristic_name, value) ==
    IF characteristic_name \in DOMAIN CHARACTERISTICS_DICT
    THEN [exc |-> "none",
          obj |-> Construct(CHARACTERISTICS_DICT[characteristic_name], value)]
    ELSE [exc |-> "KeyError", obj |-> None]

(***************************************************************************)
(* Model and Manufacturer.                                                 *)
(***************************************************************************)
\* a Model that keeps the first Manufacturer ever constructed
Model_first(manufacturer, model_name, characteristics) ==
    [manufacturer |-> 1,
     model_name |-> model_name,
     characteristics |-> characteristics]

Model(manufacturer, model_name, characteristics) ==
    [manufacturer |-> manufacturer,
     model_name |-> model_name,
     characteristics |-> characteristics]

Manufacturer(brand) == [brand |-> brand, models |-> <<>>]

\* insert(0, model) in place of append(model)
add_model_front(mans, m, model) ==
    [mans EXCEPT ![m].models = <<model>> \o @]

\* Manufacturer.add_model on the Manufacturer m of the heap
add_model(mans, m, model) ==
    [mans EXCEPT ![m].models = Append(@, model)]

(***************************************************************************)
(* ModelBuilder.build.                                                     *)
(***************************************************************************)
\* a new Manufacturer on every call, replacing the registered one
ResolveManufacturer_fresh(reg, mans, brand) ==
    [manufacturer |-> Len(mans) + 1,
     registry |-> (brand :> (Len(mans) + 1)) @@ reg,
     manufacturers |-> Append(mans, Manufacturer(brand))]

\* lines 155-159: the Manufacturer of the brand, created and registered if absent
ResolveManufacturer(reg, mans, brand) ==
    IF brand \in DOMAIN reg
    THEN [manufacturer |-> reg[brand], registry |-> reg, manufacturers |-> mans]
    ELSE [manufacturer |-> Len(mans) + 1,
          registry |-> reg @@ (brand :> (Len(mans) + 1)),
          manufacturers |-> Append(mans, Manufacturer(brand))]

\* lines 161-165: one characteristic per item whose key is not 'name', in the
\* order of kwargs; the first failing item ends the loop with its exception
RECURSIVE BuildCharacteristics(_, _, _)
BuildCharacteristics(kwargs, i, characteristics) ==
    IF i > Len(kwargs)
    THEN [exc |-> "none", characteristics |-> characteristics]
    ELSE IF kwargs[i][1] = "name"
         THEN BuildCharacteristics(kwargs, i + 1, characteristics)
         ELSE LET r == ModelCharacteristicBuilder_build(kwargs[i][1], kwargs[i][2])
              IN IF r.exc # "none"
                 THEN [exc |-> r.exc, characteristics |-> characteristics]
                 ELSE BuildCharacteristics(kwargs, i + 1, Append(characteristics, r.obj))

Reverse(seq) == [i \in DOMAIN seq |-> seq[Len(seq) + 1 - i]]

\* insert(0, characteristic) in place of append(characteristic)
CharacteristicsOf_reversed(kwargs) ==
    LET cs == BuildCharacteristics(kwargs, 1, <<>>)
    IN [exc |-> cs.exc, characteristics |-> Reverse(cs.characteristics)]

\* lines 161-165
CharacteristicsOf(kwargs) == BuildCharacteristics(kwargs, 1, <<>>)

Outcome(exc, reg, mans, mods) ==
    [exc |-> exc, registry |-> reg, manufacturers |-> mans, models |-> mods]

\* ' '.join(name_parts): the brand is not dropped
model_name_of_all(name_parts) == join(name_parts)

\* line 153
model_name_of(name_parts) == join(Tail(name_parts))

\* the characteristics built before the Manufacturer is resolved
ModelBuilder_build_late(reg, mans, mods, kwargs) ==
    IF "registry" \in Keys(kwargs)
    THEN Outcome("TypeError", reg, mans, mods)
    ELSE IF "name" \notin Keys(kwargs)
    THEN Outcome("KeyError", reg, mans, mods)
    ELSE LET name_parts == split(Lookup(kwargs, "name"))
         IN IF name_parts = <<>>
            THEN Outcome("IndexError", reg, mans, mods)
            ELSE LET cs == CharacteristicsOf(kwargs)
                 IN IF cs.exc # "none"
                    THEN Outcome(cs.exc, reg, mans, mods)
                    ELSE LET res == ResolveManufacturer(reg, mans, name_parts[1])
                             model == Model(res.manufacturer, model_name_of(name_parts),
                                            cs.characteristics)
                         IN Outcome("none", res.registry,
                                    add_model(res.manufacturers, res.manufacturer, Len(mods) + 1),
                                    Append(mods, model))

\* lines 149-170
ModelBuilder_build(reg, mans, mods, kwargs) ==
    IF "registry" \in Keys(kwargs)
    THEN \* a keyword that names the positional parameter: the call itself fails
         Outcome("TypeError", reg, mans, mods)
    ELSE IF "name" \notin Keys(kwargs)
    THEN Outcome("KeyError", reg, mans, mods)
    ELSE LET name_parts == split(Lookup(kwargs, "name"))
         IN IF name_parts = <<>>
            THEN Outcome("IndexError", reg, mans, mods)
            ELSE LET brand == name_parts[1]
                     model_name == model_name_of(name_parts)
                     res == ResolveManufacturer(reg, mans, brand)
                     cs == CharacteristicsOf(kwargs)
                 IN IF cs.exc # "none"
                    THEN Outcome(cs.exc, res.registry, res.manufacturers, mods)
                    ELSE LET model == Model(res.manufacturer, model_name, cs.characteristics)
                         IN Outcome("none", res.registry,
                                    add_model(res.manufacturers, res.manufacturer, Len(mods) + 1),
                                    Append(mods, model))

(***************************************************************************)
(* DatasetReader.read.                                                     *)
(***************************************************************************)
\* lines 188-193: the cells of the row under the header's names, one by one
RECURSIVE BuildRepresentation(_, _, _, _)
BuildRepresentation(hdr, row, item_count, rep) ==
    IF item_count >= Len(row)
    THEN [exc |-> "none", representation |-> rep]
    ELSE IF item_count >= Len(hdr)
         THEN [exc |-> "IndexError", representation |-> rep]
         ELSE BuildRepresentation(hdr, row, item_count + 1,
                                  DictUpdate(rep, hdr[item_count + 1], row[item_count + 1]))

\* zip(header, row): the cells beyond the header are dropped
RepresentationOf_zip(hdr, row) ==
    BuildRepresentation(hdr, SubSeq(row, 1, IF Len(row) < Len(hdr) THEN Len(row) ELSE Len(hdr)),
                        0, <<>>)

\* lines 188-193
RepresentationOf(hdr, row) == BuildRepresentation(hdr, row, 0, <<>>)

\* the file left as it is
Exit_leaves_open(file) == file

\* leaving the with block: the file is closed, with or without an exception
Exit_with(file) == "closed"

\* the inputs: the column names a header may hold, the name fields, and the
\* raw values, which the code never inspects (a cell holds its own position)
ReaderColumns == {"name", "mpg", "year", "color", "registry"}
ReaderNames == {<<>>, <<"a">>, <<"a", " ", "b">>, <<"b", " ", "a">>}
Digits == <<"1", "2", "3", "4", "5", "6", "7", "8", "9">>
ValueAt(i) == <<Digits[i]>>

\* the header records: the name column occurs at most twice
HeaderRows ==
    {hdr \in StringsUpTo(ReaderColumns, MaxCells) :
        Cardinality({i \in DOMAIN hdr : hdr[i] = "name"}) <= 2}

\* a cell under the name column is a name field; any other cell is a raw value
CellsAt(hdr, i) ==
    IF i <= Len(hdr) /\ hdr[i] = "name" THEN ReaderNames ELSE {ValueAt(i)}

\* the rows of k cells that may follow the header hdr
RECURSIVE RowsOfLen(_, _)
RowsOfLen(hdr, k) ==
    IF k = 0 THEN {<<>>}
    ELSE {Append(row, cell) : row \in RowsOfLen(hdr, k - 1), cell \in CellsAt(hdr, k)}

DataRows(hdr) == UNION {RowsOfLen(hdr, k) : k \in 0..MaxCells}

Init ==
    /\ pc = "start"
    /\ csv_file = "unopened"
    /\ line_count = 0
    /\ header = <<>>
    /\ source = <<>>
    /\ representation = <<>>
    /\ calls = <<>>
    /\ registry = <<>>
    /\ manufacturers = <<>>
    /\ models = <<>>
    /\ exception = "none"
    /\ returned = <<>>

\* line 180: open succeeds
Open ==
    /\ pc = "start"
    /\ pc' = "loop"
    /\ csv_file' = "open"
    /\ UNCHANGED <<line_count, header, source, representation, calls, registry,
                   manufacturers, models, exception, returned>>

\* line 180: open raises
OpenFails ==
    /\ pc = "start"
    /\ pc' = "raised"
    /\ exception' = "OSError"
    /\ UNCHANGED <<csv_file, line_count, header, source, representation, calls,
                   registry, manufacturers, models, returned>>

\* lines 185-186, 197: the first record is the header
ReadHeader ==
    /\ pc = "loop"
    /\ line_count = 0
    /\ \E row \in HeaderRows :
        /\ header' = row
        /\ source' = Append(source, row)
    /\ line_count' = line_count + 1
    /\ UNCHANGED <<pc, csv_file, representation, calls, registry, manufacturers,
                   models, exception, returned>>

\* lines 188-197: a data record
ReadRecord ==
    /\ pc = "loop"
    /\ line_count > 0
    /\ line_count <= MaxRecords
    /\ \E row \in DataRows(header) :
        LET rep == RepresentationOf(header, row)
            out == IF rep.exc # "none"
                   THEN Outcome(rep.exc, registry, manufacturers, models)
                   ELSE ModelBuilder_build(registry, manufacturers, models, rep.representation)
        IN /\ source' = Append(source, row)
           /\ representation' = rep.representation
           /\ calls' = IF rep.exc # "none" THEN calls ELSE Append(calls, rep.representation)
           /\ registry' = out.registry
           /\ manufacturers' = out.manufacturers
           /\ models' = out.models
           /\ \/ /\ out.exc = "none"
                 /\ line_count' = line_count + 1
                 /\ UNCHANGED <<pc, csv_file, exception>>
              \/ /\ out.exc # "none"
                 /\ pc' = "raised"
                 /\ exception' = out.exc
                 /\ csv_file' = Exit_with(csv_file)
                 /\ UNCHANGED line_count
    /\ UNCHANGED <<header, returned>>

\* lines 184, 199: the source is exhausted
Return ==
    /\ pc = "loop"
    /\ pc' = "returned"
    /\ csv_file' = Exit_with(csv_file)
    /\ returned' = <<registry>>
    /\ UNCHANGED <<line_count, header, source, representation, calls, registry,
                   manufacturers, models, exception>>

Next == Open \/ OpenFails \/ ReadHeader \/ ReadRecord \/ Return

Spec == Init /\ [][Next]_vars

(***************************************************************************)
(* Direct calls of ModelBuilder.build by a caller that holds the registry. *)
(***************************************************************************)
\* ModelBuilder.build(registry, **kwargs), lines 149-170; an exception leaves
\* the caller with the registry as the call left it
Call(kwargs) ==
    /\ pc = "call"
    /\ LET out == ModelBuilder_build(registry, manufacturers, models, kwargs)
       IN /\ registry' = out.registry
          /\ manufacturers' = out.manufacturers
          /\ models' = out.models
          /\ exception' = out.exc
          /\ returned' = IF out.exc = "none" THEN <<out.registry>> ELSE <<>>
    /\ representation' = kwargs
    /\ calls' = Append(calls, kwargs)
    /\ UNCHANGED <<pc, csv_file, line_count, header, source>>

CallerInit ==
    /\ pc = "call"
    /\ csv_file = "unopened"
    /\ line_count = 0
    /\ header = <<>>
    /\ source = <<>>
    /\ representation = <<>>
    /\ calls = <<>>
    /\ registry = <<>>
    /\ manufacturers = <<>>
    /\ models = <<>>
    /\ exception = "none"
    /\ returned = <<>>

\* the keyword arguments over names, columns and values: a name, a name and
\* one column on either side of it, or one column and no name
KwargsOver(names, columns, values) ==
    {<<<<"name", n>>>> : n \in names}
    \cup {<<<<"name", n>>, <<c, v>>>> : n \in names, c \in columns, v \in values}
    \cup {<<<<c, v>>, <<"name", n>>>> : n \in names, c \in columns, v \in values}
    \cup {<<<<c, v>>>> : c \in columns, v \in values}

\* one call on a fresh registry, over every column and every short name field
BuildColumns == DOMAIN CHARACTERISTICS_DICT \cup {"color", "registry"}
BuildNames == StringsUpTo(Alphabet, MaxLen)
BuildValues == {<<>>, <<"3", "2">>}

\* the caller has its keyword arguments at hand before the call
BuildInit ==
    /\ pc = "call"
    /\ csv_file = "unopened"
    /\ line_count = 0
    /\ header = <<>>
    /\ source = <<>>
    /\ representation \in KwargsOver(BuildNames, BuildColumns, BuildValues)
    /\ calls = <<>>
    /\ registry = <<>>
    /\ manufacturers = <<>>
    /\ models = <<>>
    /\ exception = "none"
    /\ returned = <<>>

BuildNext ==
    /\ calls = <<>>
    /\ Call(representation)

BuildSpec == BuildInit /\ [][BuildNext]_vars

\* a sequence of calls on one registry, each call made whether or not the one
\* before it raised
CallsColumns == {"mpg", "color", "registry"}

CallsNext ==
    \E kwargs \in KwargsOver(ReaderNames, CallsColumns, {ValueAt(Len(calls) + 1)}) :
        /\ Len(calls) < MaxCalls
        /\ Call(kwargs)

CallsSpec == CallerInit /\ [][CallsNext]_vars

(***************************************************************************)
(* Vocabulary of the properties.                                           *)
(***************************************************************************)
RecognizedColumns ==
    {"mpg", "cylinders", "displacement", "horsepower", "weight", "acceleration", "year"}

HasToken(s) == \E i \in DOMAIN s : s[i] \notin Whitespace

\* the positions at which a token of s starts
TokenStarts(s) ==
    {i \in DOMAIN s : s[i] \notin Whitespace /\ (i = 1 \/ s[i - 1] \in Whitespace)}

\* the numbers of a finite set, in ascending order
Ascending(set) ==
    [n \in 1..Cardinality(set) |->
        CHOOSE i \in set : Cardinality({j \in set : j <= i}) = n]

\* the elements of s at the positions in keep, in order
SubSeqAt(s, keep) == [n \in 1..Cardinality(keep) |-> s[Ascending(keep)[n]]]

\* s without leading and trailing whitespace, each inner run of whitespace
\* reduced to its first character
Collapse(s) ==
    SubSeqAt(s, {i \in DOMAIN s :
                    \/ s[i] \notin Whitespace
                    \/ /\ i > 1
                       /\ s[i - 1] \notin Whitespace
                       /\ \E j \in (i + 1)..Len(s) : s[j] \notin Whitespace})

\* the call of BuildSpec has a name field with a token and no keyword that
\* fails the call before its body
NamedCall ==
    /\ calls # <<>>
    /\ "name" \in Keys(representation)
    /\ "registry" \notin Keys(representation)
    /\ HasToken(Lookup(representation, "name"))

AttributesRecognized(kwargs) == Keys(kwargs) \subseteq RecognizedColumns \cup {"name"}

\* C3: a name field with at least one token gives the brand its first token and
\* the Model the remaining tokens joined by single spaces; with one token the
\* display name is empty and the call does not fail.
C3_DisplayName ==
    NamedCall =>
        LET name == Lookup(representation, "name")
            parts == split(name)
        IN /\ exception \in {"none", "KeyError"}
           /\ DOMAIN registry = {parts[1]}
           /\ manufacturers[registry[parts[1]]].brand = parts[1]
           /\ \A i \in DOMAIN parts[1] : parts[1][i] \notin Whitespace
           /\ AttributesRecognized(representation) =>
                /\ exception = "none"
                /\ Len(models) = 1
                /\ models[1].manufacturer = registry[parts[1]]
                /\ models[1].model_name = join(Tail(parts))
                /\ parts[1] \o (IF models[1].model_name = <<>> THEN <<>>
                                 ELSE <<" ">> \o models[1].model_name)
                      = Collapse(name)
                /\ Cardinality(TokenStarts(name)) = 1 => models[1].model_name = <<>>

\* three tokens separated by more than one space
C3_Witness ==
    /\ NamedCall
    /\ exception = "none"
    /\ Lookup(representation, "name") = <<"a", " ", " ", "b", " ">>
    /\ models[1].model_name = <<"b">>

\* the units the kinds are rendered with
ExpectedUnit ==
    [mpg |-> <<"m", "p", "g">>,
     displacement |-> <<"c", "c">>,
     horsepower |-> <<"h", "p">>,
     weight |-> <<"k", "g">>,
     acceleration |-> <<"s", "e", "c", "s">>]

\* C4: for a recognized column c and a raw value v the attribute built has the
\* value v, the unit of its kind (none for cylinders and year), and renders as
\* "<v> <unit>" for a unit-bearing kind and as v for a unit-less kind.
C4_Rendering ==
    \A i \in DOMAIN representation :
        LET c == representation[i][1]
            v == representation[i][2]
        IN (NamedCall /\ c \in RecognizedColumns) =>
            /\ exception = "none"
            /\ returned = <<registry>>
            /\ Len(models) = 1
            /\ Len(models[1].characteristics) = 1
            /\ LET ch == models[1].characteristics[1]
               IN /\ get_value(ch) = v
                  /\ IF c \in {"cylinders", "year"}
                     THEN /\ get_unit_of_measure(ch) = None
                          /\ get_meaningful_value(ch) = v
                     ELSE /\ get_unit_of_measure(ch) = ExpectedUnit[c]
                          /\ get_meaningful_value(ch) = v \o <<" ">> \o ExpectedUnit[c]

\* a weight rendered with its unit
C4_Witness ==
    /\ calls # <<>>
    /\ exception = "none"
    /\ representation = <<<<"weight", <<"3", "2">>>>, <<"name", <<"a">>>>>>
    /\ get_meaningful_value(models[1].characteristics[1]) = <<"3", "2", " ", "k", "g">>

(***************************************************************************)
(* The records of the source, as DatasetReader.read has consumed them.     *)
(***************************************************************************)
\* source[1] is the header record; the data records follow it
DataRecords == 2..Len(source)

\* the positions of a data record that lie under a column name
Present(row) == {i \in DOMAIN row : i <= Len(header)}

ColumnsCarried(row) == {header[i] : i \in Present(row)}

\* the name field of a data record: the cell under the last name column
NamePositions(row) == {i \in Present(row) : header[i] = "name"}

NameField(row) == row[CHOOSE i \in NamePositions(row) : \A j \in NamePositions(row) : j <= i]

WellNamed(row) == NamePositions(row) # {} /\ HasToken(NameField(row))

BrandOf(row) == split(NameField(row))[1]

NonNamePositions(row) == {i \in Present(row) : header[i] # "name"}

\* the positions at which a non-name column name occurs for the first time
FirstPositions(row) ==
    {i \in NonNamePositions(row) : \A j \in NonNamePositions(row) : j < i => header[j] # header[i]}

\* the cell under the last occurrence of the column name found at position i
LastCell(row, i) ==
    row[CHOOSE j \in Present(row) :
            /\ header[j] = header[i]
            /\ \A k \in Present(row) : header[k] = header[i] => k <= j]

\* C1: the registry holds one Manufacturer per brand: every key maps to a
\* Manufacturer of that brand, no two Manufacturers ever constructed share a
\* brand, and each one constructed is still the one registered for its brand.
C1_OnePerBrand ==
    /\ \A b \in DOMAIN registry :
        /\ registry[b] \in DOMAIN manufacturers
        /\ manufacturers[registry[b]].brand = b
    /\ \A i \in DOMAIN manufacturers :
        /\ manufacturers[i].brand \in DOMAIN registry
        /\ registry[manufacturers[i].brand] = i
    /\ \A i, j \in DOMAIN manufacturers :
        manufacturers[i].brand = manufacturers[j].brand => i = j

\* two records of one brand and a record of another have been built
C1_Witness ==
    /\ Len(manufacturers) = 1
    /\ Len(manufacturers[1].models) = 2
    /\ Len(models) = 2

\* C2: when read returns, each brand's Manufacturer lists exactly the Models of
\* the data records whose name field starts with that brand, in the order of
\* the records; the header record gives no Model.
C2_ModelsPerBrand ==
    pc = "returned" =>
        /\ Len(models) = Cardinality(DataRecords)
        /\ \A k \in DataRecords : WellNamed(source[k])
        /\ DOMAIN registry = {BrandOf(source[k]) : k \in DataRecords}
        /\ \A b \in DOMAIN registry :
            LET records == {k \in DataRecords : BrandOf(source[k]) = b}
                list == manufacturers[registry[b]].models
            IN /\ Len(list) = Cardinality(records)
               /\ list = Ascending({k - 1 : k \in records})
               /\ \A n \in DOMAIN list :
                    models[list[n]].model_name
                        = join(Tail(split(NameField(source[list[n] + 1]))))

\* two records of one brand, read under a header that names the brand too
C2_Witness ==
    /\ pc = "returned"
    /\ header = <<"name">>
    /\ Len(source) = 3
    /\ Len(manufacturers) = 1
    /\ models[manufacturers[1].models[1]].model_name = <<"b">>
    /\ models[manufacturers[1].models[2]].model_name = <<>>

\* the attribute built from the cell at position i of a row
AttributeAt(row, i) == Construct(CHARACTERISTICS_DICT[header[i]], row[i])

\* C5 as stated: the Model of every data record has one attribute per non-name
\* column of the record, in column order, each built from that column's cell.
C5_OnePerColumn ==
    \A j \in DOMAIN models :
        LET row == source[j + 1]
            pos == Ascending(NonNamePositions(row))
        IN models[j].characteristics = [n \in DOMAIN pos |-> AttributeAt(row, pos[n])]

\* C5, amended: the Model of every data record has one attribute per distinct
\* non-name column name of the record, in the order in which the names first
\* occur, each built from the last cell under that name.
C5_OnePerColumnName ==
    \A j \in DOMAIN models :
        LET row == source[j + 1]
            pos == Ascending(FirstPositions(row))
        IN models[j].characteristics
             = [n \in DOMAIN pos |->
                    Construct(CHARACTERISTICS_DICT[header[pos[n]]], LastCell(row, pos[n]))]

\* a name column between two attribute columns, and a repeated column name
C5_Witness ==
    /\ header = <<"mpg", "name", "year", "mpg">>
    /\ Len(models) >= 1
    /\ Len(source[2]) = 4
    /\ Len(models[1].characteristics) = 2
    /\ models[1].characteristics[1] = Construct("MilesPerGallon", <<"4">>)
    /\ models[1].characteristics[2] = Construct("Year", <<"3">>)

\* the data records that carry a column name outside the recognized set
Unrecognized(row) == ColumnsCarried(row) \ (RecognizedColumns \cup {"name"})

\* C6: a data record with a column name outside the recognized set aborts read:
\* nothing is returned, no Model comes from the record and no record is read
\* after it; the lookup of such a name fails and yields no None.
C6_UnknownColumnAborts ==
    \A k \in DataRecords :
        Unrecognized(source[k]) # {} =>
            /\ pc = "raised"
            /\ exception # "none"
            /\ returned = <<>>
            /\ k = Len(source)
            /\ Len(models) < k - 1
            /\ \A c \in Unrecognized(source[k]) :
                 ModelCharacteristicBuilder_build(c, <<>>).exc = "KeyError"

\* a record is processed, and the next one fails on the column color
C6_Witness ==
    /\ pc = "raised"
    /\ exception = "KeyError"
    /\ Len(source) = 3
    /\ Len(models) = 1
    /\ "color" \in Unrecognized(source[3])
    /\ WellNamed(source[3])

\* C7: every Model in the list of a registered Manufacturer refers to that
\* Manufacturer, and no Model is in two lists or twice in one.
C7_ModelsOwnedOnce ==
    /\ \A b \in DOMAIN registry :
        \A n \in DOMAIN manufacturers[registry[b]].models :
            /\ manufacturers[registry[b]].models[n] \in DOMAIN models
            /\ models[manufacturers[registry[b]].models[n]].manufacturer = registry[b]
    /\ \A i, j \in DOMAIN manufacturers :
        \A n \in DOMAIN manufacturers[i].models, m \in DOMAIN manufacturers[j].models :
            manufacturers[i].models[n] = manufacturers[j].models[m] => (i = j /\ n = m)

\* two Manufacturers, each with a Model
C7_Witness ==
    /\ Len(manufacturers) = 2
    /\ Len(manufacturers[1].models) = 1
    /\ Len(manufacturers[2].models) = 1

\* C8: once the source has been opened it is closed when read has exited, by
\* return or by an exception.
C8_ClosedOnExit ==
    (csv_file # "unopened" /\ pc \in {"returned", "raised"}) => csv_file = "closed"

\* read left by the exception of an over-long record, after a record was processed
C8_Witness ==
    /\ pc = "raised"
    /\ exception = "IndexError"
    /\ Len(models) = 1
    /\ Len(source[3]) > Len(header)
    /\ csv_file = "closed"

\* a data record longer than the header aborts read and gives no Model
LongRecordsAbort ==
    \A k \in DataRecords :
        Len(source[k]) > Len(header) =>
            /\ pc = "raised"
            /\ returned = <<>>
            /\ k = Len(source)
            /\ Len(models) < k - 1

\* a data record shorter than the header, with its name cell and nothing else
\* wrong in the cells it has
ShortRecord(row) ==
    /\ Len(row) < Len(header)
    /\ WellNamed(row)
    /\ ColumnsCarried(row) \subseteq RecognizedColumns \cup {"name"}

\* C9 as stated: a longer record aborts; a shorter record with its name cell is
\* accepted and gives a Model with one attribute per non-name cell present.
C9_LengthMismatch ==
    /\ LongRecordsAbort
    /\ \A k \in DataRecords :
        ShortRecord(source[k]) =>
            /\ Len(models) >= k - 1
            /\ Len(models[k - 1].characteristics) = Cardinality(NonNamePositions(source[k]))

\* C9, amended: a longer record aborts; a shorter record with its name cell is
\* accepted and gives a Model with one attribute per distinct non-name column
\* name among the cells present, none for the missing trailing columns.
C9_LengthMismatchByName ==
    /\ LongRecordsAbort
    /\ \A k \in DataRecords :
        ShortRecord(source[k]) =>
            /\ Len(models) >= k - 1
            /\ Len(models[k - 1].characteristics) = Cardinality(FirstPositions(source[k]))
            /\ \A n \in DOMAIN models[k - 1].characteristics :
                 \E i \in NonNamePositions(source[k]) :
                    models[k - 1].characteristics[n].cls = CHARACTERISTICS_DICT[header[i]]

\* a record of two cells under a header of three
C9_Witness ==
    /\ header = <<"name", "mpg", "year">>
    /\ Len(source) >= 2
    /\ Len(source[2]) = 2
    /\ Len(models) >= 1
    /\ models[1].characteristics = <<Construct("MilesPerGallon", <<"2">>)>>

\* this step is a call of ModelBuilder.build with a name field that has a token
\* and with a column name outside the recognized set
FailsOnUnrecognized ==
    /\ calls' # calls
    /\ LET kwargs == calls'[Len(calls')]
       IN /\ "name" \in Keys(kwargs)
          /\ HasToken(Lookup(kwargs, "name"))
          /\ Keys(kwargs) \ (RecognizedColumns \cup {"name"}) # {}

BrandCalled == split(Lookup(calls'[Len(calls')], "name"))[1]

\* no Model is appended and no Manufacturer present changes; a brand that was
\* absent is left registered with a new Manufacturer that has no Model
ManufacturerLeftBehind ==
    LET brand == BrandCalled
    IN /\ exception' = "KeyError"
       /\ models' = models
       /\ \A i \in DOMAIN manufacturers : manufacturers'[i] = manufacturers[i]
       /\ brand \in DOMAIN registry =>
            /\ registry' = registry
            /\ manufacturers' = manufacturers
       /\ brand \notin DOMAIN registry =>
            /\ DOMAIN registry' = DOMAIN registry \cup {brand}
            /\ \A b \in DOMAIN registry : registry'[b] = registry[b]
            /\ Len(manufacturers') = Len(manufacturers) + 1
            /\ registry'[brand] = Len(manufacturers')
            /\ manufacturers'[registry'[brand]] = [brand |-> brand, models |-> <<>>]

\* the call fails and the registry and every object are as before the call
NothingChanged ==
    /\ exception' = "TypeError"
    /\ models' = models
    /\ manufacturers' = manufacturers
    /\ registry' = registry

\* C10 as stated: a call that fails on an unrecognized attribute column appends
\* no Model and changes no Manufacturer present, and leaves a brand that was
\* absent registered with a new Manufacturer without Models.
C10_ManufacturerLeftBehind ==
    [][FailsOnUnrecognized => ManufacturerLeftBehind]_vars

\* C10, amended: as stated when the call fails in
\* ModelCharacteristicBuilder.build; a column named registry fails the call
\* before its body runs, and then the registry is as before the call.
C10_LeftBehindUnlessKeywordClash ==
    [][FailsOnUnrecognized =>
          IF "registry" \in Keys(calls'[Len(calls')])
          THEN NothingChanged
          ELSE ManufacturerLeftBehind]_vars

\* a Manufacturer with a Model, and one left without by the failed call
C10_Witness ==
    /\ exception = "KeyError"
    /\ "name" \in Keys(representation)
    /\ Len(manufacturers) = 2
    /\ Len(manufacturers[1].models) = 1
    /\ manufacturers[2].models = <<>>
    /\ Len(models) = 1

====
